---------------------------- MODULE Spec2Model ----------------------------
(***************************************************************************)
(* The request pane of openapi-tui (src/src/panes/request.rs): its fields, *)
(* the rebuild of its render cache on Action::Update, and its scrolling.   *)
(*                                                                         *)
(* Option<T> is a sequence of length 0 (None) or 1 (Some).  Result<T, E>   *)
(* is a record [ok, val].  ObjectOrReference<T> is a pair <<"Object", t>>  *)
(* or <<"Ref", name>>.                                                     *)
(***************************************************************************)
EXTENDS Integers, Sequences, FiniteSets, TLC

(***************************************************************************)
(* Bounds of the exploration.                                              *)
(***************************************************************************)
\* Largest scroll offset the exploration follows; only the release-build
\* Down on an empty cache can move the offset past the cache length.
MaxOffset == 4

\* Largest number of lines of a serialized schema whose gutters are formatted.
MaxLines == 1000

\* Largest number of replacements of the shared state by its writer.
MaxWrites == 3

(***************************************************************************)
(* usize arithmetic.  TLC integers are 32 bits wide, so usize_MAX stands   *)
(* for usize::MAX (2^64 - 1 on a 64-bit target); the model relies only on  *)
(* its being larger than every offset and every cache length it reaches.   *)
(***************************************************************************)
usize_MAX == 2147483647

saturating_add(a, b) == IF a > usize_MAX - b THEN usize_MAX ELSE a + b

\* saturating_sub with a plain subtraction in its place.
unchecked_sub(a, b) == a - b

saturating_sub(a, b) == IF b > a THEN 0 ELSE a - b

\* `a - b` of a build without overflow checks: the result modulo 2^w.
wrapping_sub(a, b) == IF a >= b THEN a - b ELSE (usize_MAX - (b - a)) + 1

min(a, b) == IF a <= b THEN a ELSE b

(***************************************************************************)
(* Option and Result.                                                      *)
(***************************************************************************)
None == <<>>

Some(x) == <<x>>

Ok(v) == [ok |-> TRUE, val |-> v]

Err(e) == [ok |-> FALSE, val |-> e]

(***************************************************************************)
(* The specification document (oas3::Spec), immutable after load.          *)
(***************************************************************************)
StringSchema == [type |-> "string", properties |-> <<>>]

\* The schema of the spec's scenario: {type: object, properties: {name: {type: string}}}
PetSchema == [type |-> "object", properties |-> <<"name">>]

MediaType(schema_oor) == [schema |-> schema_oor]

\* A request body with one media type.
RequestBody(media_type, schema_oor) == [content |-> (media_type :> MediaType(schema_oor))]

Operation(request_body) == [request_body |-> request_body]

Components ==
  [schemas |-> ("Pet" :> PetSchema),
   request_bodies |-> ("PetBody" :> RequestBody("application/json", <<"Ref", "Pet">>))]

\* One operation for each path through init_request_schema.
Operations ==
  << Operation(Some(<<"Object", RequestBody("application/json", <<"Object", StringSchema>>)>>)),
     Operation(Some(<<"Ref", "PetBody">>)),
     Operation(None),
     Operation(Some(<<"Object", RequestBody("text/plain", <<"Object", StringSchema>>)>>)),
     Operation(Some(<<"Ref", "Missing">>)),
     Operation(Some(<<"Object", RequestBody("application/json", <<"Ref", "Missing">>)>>)) >>

openapi_spec == [operations |-> Operations, components |-> Components]

\* A Navigation State: the document and the index of the selected operation
\* (0: no operation selected).
State(active) == [openapi_spec |-> openapi_spec, active_operation_index |-> active]

active_operation(st) ==
  IF st.active_operation_index = 0
  THEN None
  ELSE Some(st.openapi_spec.operations[st.active_operation_index])

\* ObjectOrReference<RequestBody>::resolve
resolve_request_body(oor, spec) ==
  IF oor[1] = "Object" THEN Ok(oor[2])
  ELSE IF oor[2] \in DOMAIN spec.components.request_bodies
       THEN Ok(spec.components.request_bodies[oor[2]])
       ELSE Err("Unresolvable")

\* MediaType::schema that falls back to a default schema when the reference
\* has no target.
schema_or_default(media_type, spec) ==
  LET oor == media_type.schema
  IN IF oor[1] = "Object" THEN Ok(oor[2])
     ELSE IF oor[2] \in DOMAIN spec.components.schemas
          THEN Ok(spec.components.schemas[oor[2]])
          ELSE Ok(StringSchema)

\* MediaType::schema; every media type of the document carries a schema.
schema(media_type, spec) ==
  LET oor == media_type.schema
  IN IF oor[1] = "Object" THEN Ok(oor[2])
     ELSE IF oor[2] \in DOMAIN spec.components.schemas
          THEN Ok(spec.components.schemas[oor[2]])
          ELSE Err("Unresolvable")

(***************************************************************************)
(* serde_yaml::to_string (request.rs line 72): the YAML text of a schema,  *)
(* as the sequence of its tokens; "\n" ends a line.                        *)
(***************************************************************************)
RECURSIVE properties_to_string(_)
properties_to_string(names) ==
  IF names = <<>> THEN <<>>
  ELSE <<"  ", Head(names), ":", "\n", "    ", "type", ":", " ", "string", "\n">>
       \o properties_to_string(Tail(names))

\* The YAML text of a schema.
yaml_text(request_schema) ==
  <<"type", ":", " ", request_schema.type, "\n">>
  \o (IF request_schema.properties = <<>> THEN <<>>
      ELSE <<"properties", ":", "\n">> \o properties_to_string(request_schema.properties))

\* serde_yaml::to_string and HighlightLines::highlight_line return a Result.
\* Both are functions of their input: a library (lib) is the set of schemas the
\* serializer fails on and the set of lines the highlighter fails on.
healthy == [to_string |-> {}, highlight_line |-> {}]

\* serde_yaml::to_string(&request_schema)  (line 72)
to_string(request_schema, lib) ==
  IF request_schema \in lib.to_string THEN Err("Serialize")
  ELSE Ok(yaml_text(request_schema))

\* syntect::util::LinesWithEndings: the lines of a text, each with its
\* ending; a last line without an ending is a line too.
RECURSIVE LinesWithEndings(_)
LinesWithEndings(text) ==
  IF text = <<>> THEN <<>>
  ELSE LET ends == {i \in 1..Len(text) : text[i] = "\n"}
           cut == IF ends = {} THEN Len(text)
                  ELSE CHOOSE i \in ends : \A j \in ends : i <= j
       IN <<SubSeq(text, 1, cut)>> \o LinesWithEndings(SubSeq(text, cut + 1, Len(text)))

\* ratatui Style::default(): nothing set.
Style_default ==
  [fg |-> "None", bg |-> "None", underline_color |-> "None", dim |-> FALSE, add_modifier |-> {}]

\* A syntect FontStyle is a u8 of flag bits: BOLD 1, UNDERLINE 2, ITALIC 4.
u8_MAX == 255

FontStyleBit(font_style, bit) == (font_style \div bit) % 2 = 1

\* syntect_tui::translate_style: the ratatui Style of a syntect Style, or an
\* error for a font style with a bit other than BOLD, UNDERLINE and ITALIC.
syntect_tui_translate_style(style) ==
  IF style.font_style > 7 THEN Err("UnknownFontStyle")
  ELSE Ok([fg |-> style.foreground, bg |-> style.background, underline_color |-> "None",
           dim |-> FALSE,
           add_modifier |-> {m \in {"BOLD", "UNDERLINED", "ITALIC"} :
                               \/ m = "BOLD" /\ FontStyleBit(style.font_style, 1)
                               \/ m = "UNDERLINED" /\ FontStyleBit(style.font_style, 2)
                               \/ m = "ITALIC" /\ FontStyleBit(style.font_style, 4)}])

\* The Style the closure of lines 79-88 gives a highlighted segment:
\* translate_style(segment.0).ok().unwrap_or_default()
\*   .underline_color(Color::Reset).bg(Color::Reset); the closure cannot fail.
segment_style(style) ==
  LET translated == syntect_tui_translate_style(style)
  IN Ok([(IF translated.ok THEN translated.val ELSE Style_default)
           EXCEPT !.underline_color = "Reset", !.bg = "Reset"])

\* The style the theme "Solarized (dark)" gives the i-th token of a YAML line.
theme_style(line, i) ==
  LET foreground == IF line[i] \in {"\n", " ", "  ", "    "} THEN "base0"
                    ELSE IF line[i] = ":" THEN "base01"
                    ELSE IF \E j \in 1..(i - 1) : line[j] = ":" THEN "cyan"
                    ELSE "blue"
  IN [foreground |-> foreground, background |-> "base03", font_style |-> 0]

\* The Style of the i-th token of a YAML line in the render cache (lines 81-85).
translate_style(line, i) == segment_style(theme_style(line, i)).val

\* HighlightLines::highlight_line(line, ..)? mapped to (Style, String) pairs
\* (lines 76-89).
highlight_line(line, lib) ==
  IF line \in lib.highlight_line THEN Err("Highlight")
  ELSE Ok([i \in 1..Len(line) |-> <<translate_style(line, i), line[i]>>])

\* The decimal digits of n.
RECURSIVE Digits(_)
Digits(n) ==
  LET d == <<"0", "1", "2", "3", "4", "5", "6", "7", "8", "9">>[(n % 10) + 1]
  IN IF n < 10 THEN <<d>> ELSE Digits(n \div 10) \o <<d>>

\* {:<w}: left-aligned, padded with spaces up to width w, never truncated.
RECURSIVE PadRight(_, _)
PadRight(chars, w) == IF Len(chars) >= w THEN chars ELSE PadRight(chars \o <<" ">>, w)

\* The gutter with the 0-based index of the enumeration as the line number.
gutter_zero_based(line_num) ==
  <<[Style_default EXCEPT !.dim = TRUE],
    <<" ">> \o PadRight(Digits(line_num), 3) \o <<" ">> >>

\* format!(" {:<3} ", line_num + 1) with the dim style  (line 90).
gutter(line_num) ==
  <<[Style_default EXCEPT !.dim = TRUE],
    <<" ">> \o PadRight(Digits(line_num + 1), 3) \o <<" ">> >>

\* The for loop of set_request_schema_styles from line number line_num on:
\* one push onto request_schema_styles for each line; the `?` of line 77
\* leaves the loop with the lines pushed so far.
RECURSIVE push_lines(_, _, _, _)
push_lines(request_schema_styles, lines, line_num, lib) ==
  IF line_num >= Len(lines)
  THEN [request_schema_styles |-> request_schema_styles, result |-> "Ok"]
  ELSE LET highlighted == highlight_line(lines[line_num + 1], lib)
       IN IF ~highlighted.ok
          THEN [request_schema_styles |-> request_schema_styles, result |-> "Err"]
          ELSE LET line_styles == <<gutter(line_num)>> \o highlighted.val
               IN push_lines(Append(request_schema_styles, line_styles), lines,
                             line_num + 1, lib)

(***************************************************************************)
(* RequestPane.  A method is an operator from the pane (self) to the pane  *)
(* after the call and the call's result.                                   *)
(***************************************************************************)
\* The emphasized style the controller hands to RequestPane::new.
FocusedBorderStyle == [Style_default EXCEPT !.fg = "LightGreen"]

\* RequestPane::new
new(focused) ==
  [focused |-> focused,
   focused_border_style |-> FocusedBorderStyle,
   request_body |-> None,
   request_schema |-> None,
   request_schema_line_offset |-> 0,
   request_schema_styles |-> <<>>]

set_request_schema_styles(self, lib) ==
  IF self.request_schema # None
  THEN LET yaml_schema == to_string(self.request_schema[1], lib)
       IN IF ~yaml_schema.ok THEN [self |-> self, result |-> "Err"]
          ELSE LET pushed == push_lines(self.request_schema_styles,
                                        LinesWithEndings(yaml_schema.val), 0, lib)
               IN [self |-> [self EXCEPT !.request_schema_styles =
                                           pushed.request_schema_styles],
                   result |-> pushed.result]
  ELSE [self |-> self, result |-> "Ok"]

\* The block of lines 98-115 without the reset at line 101, resp. at line 102.
locked_block_without(kept, self, state) ==
  LET cleared == [self EXCEPT !.request_body = None,
                              !.request_schema_styles =
                                 IF kept = "styles" THEN @ ELSE <<>>,
                              !.request_schema_line_offset =
                                 IF kept = "offset" THEN @ ELSE 0]
      active == active_operation(state)
  IN IF active = None THEN [self |-> cleared, result |-> "Ok"]
     ELSE IF active[1].request_body = None THEN [self |-> cleared, result |-> "Ok"]
     ELSE LET resolved_oor == resolve_request_body(active[1].request_body[1], state.openapi_spec)
          IN IF ~resolved_oor.ok THEN [self |-> cleared, result |-> "Err"]
             ELSE IF "application/json" \in DOMAIN resolved_oor.val.content
             THEN LET request_schema == schema(resolved_oor.val.content["application/json"],
                                               state.openapi_spec)
                  IN IF ~request_schema.ok THEN [self |-> cleared, result |-> "Err"]
                     ELSE [self |-> [cleared EXCEPT !.request_schema = Some(request_schema.val),
                                                    !.request_body = Some(resolved_oor.val)],
                           result |-> "Ok"]
             ELSE [self |-> [cleared EXCEPT !.request_body = Some(resolved_oor.val)],
                   result |-> "Ok"]

locked_block_keeps_styles(self, state) == locked_block_without("styles", self, state)

locked_block_keeps_offset(self, state) == locked_block_without("offset", self, state)

\* init_request_schema, lines 98-115: what it does while it holds the read
\* guard `state`; result "Err" is the early return of a `?`.
locked_block(self, state) ==
  LET cleared == [self EXCEPT !.request_body = None,
                              !.request_schema_styles = <<>>,
                              !.request_schema_line_offset = 0]
      active == active_operation(state)
  IN IF active = None THEN [self |-> cleared, result |-> "Ok"]
     ELSE IF active[1].request_body = None THEN [self |-> cleared, result |-> "Ok"]
     ELSE LET resolved_oor == resolve_request_body(active[1].request_body[1], state.openapi_spec)
          IN IF ~resolved_oor.ok THEN [self |-> cleared, result |-> "Err"]
             ELSE IF "application/json" \in DOMAIN resolved_oor.val.content
             THEN LET request_schema == schema(resolved_oor.val.content["application/json"],
                                               state.openapi_spec)
                  IN IF ~request_schema.ok THEN [self |-> cleared, result |-> "Err"]
                     ELSE [self |-> [cleared EXCEPT !.request_schema = Some(request_schema.val),
                                                    !.request_body = Some(resolved_oor.val)],
                           result |-> "Ok"]
             ELSE [self |-> [cleared EXCEPT !.request_body = Some(resolved_oor.val)],
                   result |-> "Ok"]

\* init_request_schema: the block, then set_request_schema_styles()? (line 116).
init_request_schema(self, state, lib) ==
  LET block == locked_block(self, state)
  IN IF block.result = "Err" THEN block
     ELSE set_request_schema_styles(block.self, lib)

\* Pane::unfocus that leaves the flag as it is.
unfocus_keeps_flag(self) == [self |-> self, result |-> "Ok"]

\* Pane::focus
focus(self) == [self |-> [self EXCEPT !.focused = TRUE], result |-> "Ok"]

\* Pane::unfocus
unfocus(self) == [self |-> [self EXCEPT !.focused = FALSE], result |-> "Ok"]

\* Pane::init
init(self) == [self |-> self, result |-> "Ok"]

\* Pane::handle_key_events: Ok(None)
handle_key_events(self) == [self |-> self, result |-> "Ok", response |-> None]

\* Pane::handle_mouse_events: Ok(None)
handle_mouse_events(self) == [self |-> self, result |-> "Ok", response |-> None]

border_style(self) == IF self.focused THEN self.focused_border_style ELSE Style_default

\* border_type that follows the request body instead of the focus.
border_type_of_body(self) == IF self.request_body # None THEN "Thick" ELSE "Plain"

border_type(self) == IF self.focused THEN "Thick" ELSE "Plain"

\* The widgets a draw renders into the frame: the media-type tabs and the
\* list of schema lines when there is a request body, and the block.
widgets(self, with_body) ==
  [tabs |-> IF with_body THEN Some(DOMAIN self.request_body[1].content) ELSE None,
   list |-> IF with_body
            THEN Some([lines |-> [i \in 1..Len(self.request_schema_styles) |->
                                   [j \in 1..Len(self.request_schema_styles[i]) |->
                                      <<[self.request_schema_styles[i][j][1] EXCEPT !.bg = "Reset"],
                                        self.request_schema_styles[i][j][2]>>]],
                       selected |-> Some(self.request_schema_line_offset)])
            ELSE None,
   block |-> [title |-> "Request", borders |-> "ALL",
              border_style |-> border_style(self), border_type |-> border_type(self)]]

\* Pane::draw that writes the list's selection, clamped to the lines drawn,
\* back to the cursor.
draw_clamps_cursor(self) ==
  [self |-> [self EXCEPT !.request_schema_line_offset =
               min(@, Len(self.request_schema_styles))],
   result |-> "Ok",
   frame |-> widgets(self, self.request_body # None)]

\* Pane::draw that renders the list whenever the cache has lines.
draw_of_cache(self) ==
  [self |-> self,
   result |-> "Ok",
   frame |-> [widgets(self, self.request_body # None) EXCEPT !.list =
                IF self.request_schema_styles # <<>>
                THEN Some([lines |-> self.request_schema_styles,
                           selected |-> Some(self.request_schema_line_offset)])
                ELSE None]]

\* Pane::draw
draw(self) ==
  [self |-> self,
   result |-> "Ok",
   frame |-> widgets(self, self.request_body # None)]

\* The Action values the pane distinguishes; "Tick" stands for every other one.
Actions == {"Update", "Down", "Up", "Submit", "Tick"}

\* Action::Down.  `len() - 1` on an empty cache overflows: a panic in a build
\* with overflow checks (debug), a wrap-around in a build without (release).
down(self, overflow_checks) ==
  LET len == Len(self.request_schema_styles)
  IN IF len = 0 /\ overflow_checks THEN [self |-> self, result |-> "Panic"]
     ELSE [self |-> [self EXCEPT !.request_schema_line_offset =
                       min(saturating_add(self.request_schema_line_offset, 1),
                           wrapping_sub(len, 1))],
           result |-> "Ok"]

\* Action::Up.
up(self) ==
  [self |-> [self EXCEPT !.request_schema_line_offset =
               saturating_sub(self.request_schema_line_offset, 1)],
   result |-> "Ok"]

\* Pane::update whose Submit arm scrolls like Down.
update_submit_scrolls(self, action, state, overflow_checks, lib) ==
  CASE action = "Update" -> init_request_schema(self, state, lib)
    [] action = "Down" -> down(self, overflow_checks)
    [] action = "Up" -> up(self)
    [] action = "Submit" -> down(self, overflow_checks)
    [] OTHER -> [self |-> self, result |-> "Ok"]

\* Pane::update
update(self, action, state, overflow_checks, lib) ==
  CASE action = "Update" -> init_request_schema(self, state, lib)
    [] action = "Down" -> down(self, overflow_checks)
    [] action = "Up" -> up(self)
    [] action = "Submit" -> [self |-> self, result |-> "Ok"]
    [] OTHER -> [self |-> self, result |-> "Ok"]

(***************************************************************************)
(* The state machine.                                                      *)
(***************************************************************************)
VARIABLES
  pane,              \* the RequestPane
  selected,          \* the operation the shared Navigation State selects, 0 for none
  overflow_checks,   \* the build profile: TRUE debug, FALSE release
  last_action,       \* the Action of the last update call, "None" before any
  last_result,       \* what that call returned: "Ok", "Err" or "Panic"
  before,            \* the scroll cursor and the render cache when that call was made
  selected_at_update,\* the selection the last Action::Update that has returned
                     \* read, -1 before any
  frame,             \* what draw rendered in the current cycle of the loop and
                     \* what it returned, None before the draw of the cycle
  others,            \* the focused flag of each of the other panes of the controller
  transfer,          \* the target of a focus transfer under way, "None" outside one
  segment,           \* a highlighted segment's style and what the closure of
                     \* lines 79-88 made of it, None before any
  process,           \* the process (main.rs): where it is, the calls tokio_main
                     \* has made, what tokio_main returned, stderr, the exit
  numbered,          \* a 0-based line index and the gutter line 90 formats for
                     \* it, None before any
  lock,              \* the RwLock of the shared state (who holds it, how often
                     \* its value was replaced) and the position of the pane
                     \* inside init_request_schema: the pane as the call found
                     \* it and what the call has read so far
  library            \* the inputs serde_yaml::to_string and highlight_line fail on

\* The state of the controller around the pane.
focus_vars == <<others, transfer>>

\* What the pane's own operations leave alone.
env == <<focus_vars, segment, process, numbered, lock, library>>

\* The parts of env that the focus transfers leave alone.
env_but_focus == <<segment, process, numbered, lock, library>>

\* The parts of env that the conversion of one segment leaves alone.
env_but_segment == <<focus_vars, process, numbered, lock, library>>

\* The parts of env that the steps of main leave alone.
env_but_process == <<focus_vars, segment, numbered, lock, library>>

\* The parts of env that the formatting of one gutter leaves alone.
env_but_numbered == <<focus_vars, segment, process, lock, library>>

\* The parts of env that the steps of the lock's holders leave alone.
env_but_lock == <<focus_vars, segment, process, numbered, library>>

\* The state of the pane and of the Navigation State.
pane_vars == <<pane, selected, overflow_checks, last_action, last_result, before,
               selected_at_update, frame>>

vars == <<pane, selected, overflow_checks, last_action, last_result, before,
          selected_at_update, frame, env>>

\* The fixed set of panes of the controller.
OtherPanes == {"apis", "response"}

Panes == OtherPanes \cup {"request"}

(***************************************************************************)
(* main.rs.  tokio_main calls its steps in order; a step followed by `?`   *)
(* can end it with that step's error, named here after the step.           *)
(***************************************************************************)
tokio_main_steps ==
  <<"initialize_logging", "initialize_panic_handler", "Cli::parse", "App::new", "App::run">>

\* The steps of tokio_main followed by `?`.
fallible_steps == {1, 2, 4, 5}

\* tokio_main after its step number `step` came back with `outcome`: the
\* Result it returns, or None when it goes on to the next step.
tokio_main(step, outcome) ==
  IF step \in fallible_steps /\ ~outcome.ok THEN Some(outcome)
  ELSE IF step = Len(tokio_main_steps) THEN Some(Ok("()"))
  ELSE None

\* The command lines the process is started with, as clap sees them.
Arguments == {"valid", "rejected", "help"}

\* Cli::parse() (main.rs:25, clap): it returns the parsed arguments, or ends
\* the process itself: with clap's error on stderr and exit code 2 on
\* arguments it rejects, with the help or version text on stdout and exit
\* code 0 on --help and --version.
Cli_parse(args) ==
  CASE args = "rejected" ->
         [exit |-> Some(Err("exit code 2")),
          stderr |-> <<"error: unexpected argument">>]
    [] args = "help" -> [exit |-> Some(Ok("exit code 0")), stderr |-> <<>>]
    [] OTHER -> [exit |-> None, stderr |-> <<>>]

\* main that drops the error of tokio_main after printing the message.
main_drops_error(result) ==
  IF ~result.ok
  THEN [stderr |-> <<"openapi-tui error: Something went wrong">>, exit |-> Ok("()")]
  ELSE [stderr |-> <<>>, exit |-> Ok("()")]

\* main: what it prints to stderr and what it returns, given what tokio_main
\* returned.
main(result) ==
  IF ~result.ok
  THEN [stderr |-> <<"openapi-tui error: Something went wrong">>, exit |-> result]
  ELSE [stderr |-> <<>>, exit |-> Ok("()")]

\* The process before main has run.
process_start ==
  [pc |-> "tokio_main", step |-> 1, calls |-> <<>>, result |-> None,
   stderr |-> <<>>, exit |-> None]

\* The lock before anybody has taken it: no reader, no writer, the state as
\* it was created, the pane outside init_request_schema.
lock_start ==
  [readers |-> {}, writer |-> "idle", writes |-> 0, pc |-> "idle",
   entry |-> None, reads |-> {}, operation |-> None, resolved_oor |-> None]

\* RwLock::read (line 99): one more holder of the read lock.
read_lock(l, p) == [l EXCEPT !.readers = @ \cup {p}]

\* A guard that outlives its block and the early returns out of it.
keep_guard(l, p) == l

\* The read guard `state` goes out of scope: at the end of the block (line
\* 115) and at the early return of a `?` inside it (lines 105, 108).
drop_guard(l, p) == [l EXCEPT !.readers = @ \ {p}]

\* What a read through the guard sees: the value and which replacement it is.
read_of(l, active) == [version |-> l.writes, active |-> active]

\* The selection the reads of the call under way saw.
selected_read(l) == (CHOOSE r \in l.reads : TRUE).active

\* The call has returned: the pane is outside init_request_schema again.
call_returned(l) ==
  [l EXCEPT !.pc = "idle", !.entry = None, !.reads = {}, !.operation = None,
            !.resolved_oor = None]

\* The libraries the pane is run with: the ones that fail on nothing, and
\* ones whose serializer fails on the string schema and whose highlighter
\* fails on the third line of the object schema's text.
Libraries ==
  {healthy,
   [to_string |-> {StringSchema},
    highlight_line |-> {LinesWithEndings(yaml_text(PetSchema))[3]}]}

\* The controller as it is while the pane is exercised on its own.
EnvInit ==
  /\ others = [p \in OtherPanes |-> FALSE]
  /\ transfer = "None"
  /\ segment = None
  /\ process = process_start
  /\ numbered = None
  /\ lock = lock_start
  /\ library \in Libraries

\* The shared Navigation State (Arc<RwLock<State>>): the document, which never
\* changes after load, and the selection.
state == State(selected)

\* What an update call can change of the scroll cursor and the render cache.
scroll_of(self) ==
  [request_schema_line_offset |-> self.request_schema_line_offset,
   request_schema_styles |-> self.request_schema_styles]

Init ==
  /\ pane \in {new(f) : f \in BOOLEAN}
  /\ selected = 0
  /\ overflow_checks \in BOOLEAN
  /\ last_action = "None"
  /\ last_result = "None"
  /\ before = scroll_of(pane)
  /\ selected_at_update = -1
  /\ frame = None
  /\ EnvInit

\* A panic ends the process: nothing runs after it.
Running == last_result # "Panic"

\* The pane is outside update: `&mut self` admits one call at a time.
Idle == Running /\ lock.pc = "idle"

\* The navigation pane selects an operation (or none): the writer replaces
\* the Navigation State as a whole.
Select(i) ==
  /\ Running
  /\ selected' = i
  /\ frame' = None
  /\ UNCHANGED <<pane, overflow_checks, last_action, last_result, before,
                 selected_at_update, env>>

\* The controller delivers an Action to the pane's update.  Action::Update
\* runs lines 98-115 under the read guard, which keeps the writer out, and
\* then either returns the error of a `?` or goes on to line 116 without the
\* guard; every other Action is processed in one piece.  The cursor of the
\* scroll actions is capped by MaxOffset.
Update(action) ==
  /\ Idle
  /\ IF action = "Update"
     THEN LET block == locked_block(pane, state)
          IN /\ pane' = block.self
             /\ IF block.result = "Ok"
                THEN /\ lock' = [lock EXCEPT !.pc = "unlocked",
                                             !.entry = Some(pane),
                                             !.reads = {read_of(lock, selected)}]
                     /\ UNCHANGED <<last_action, last_result, before,
                                    selected_at_update>>
                ELSE /\ last_action' = action
                     /\ last_result' = block.result
                     /\ before' = scroll_of(pane)
                     /\ selected_at_update' = selected
                     /\ UNCHANGED lock
     ELSE LET r == update(pane, action, state, overflow_checks, library)
          IN /\ r.self.request_schema_line_offset <= MaxOffset
             /\ pane' = r.self
             /\ last_result' = r.result
             /\ last_action' = action
             /\ before' = scroll_of(pane)
             /\ UNCHANGED <<selected_at_update, lock>>
  /\ frame' = None
  /\ UNCHANGED <<selected, overflow_checks, env_but_lock>>

\* lines 116-117: set_request_schema_styles()? and Ok(()); update returns.
SetStyles ==
  /\ Running
  /\ lock.pc = "unlocked"
  /\ LET r == set_request_schema_styles(pane, library)
     IN /\ pane' = r.self
        /\ last_result' = r.result
  /\ last_action' = "Update"
  /\ before' = scroll_of(lock.entry[1])
  /\ selected_at_update' = selected_read(lock)
  /\ lock' = call_returned(lock)
  /\ UNCHANGED <<selected, overflow_checks, frame, env_but_lock>>

\* Pane::focus
Focus ==
  /\ Idle
  /\ pane' = focus(pane).self
  /\ frame' = None
  /\ UNCHANGED <<selected, overflow_checks, last_action, last_result, before,
                 selected_at_update, env>>

\* Pane::unfocus
Unfocus ==
  /\ Idle
  /\ pane' = unfocus(pane).self
  /\ frame' = None
  /\ UNCHANGED <<selected, overflow_checks, last_action, last_result, before,
                 selected_at_update, env>>

Next ==
  \/ \E i \in 0..Len(Operations) : Select(i)
  \/ \E action \in Actions : Update(action)
  \/ SetStyles
  \/ Focus
  \/ Unfocus

Spec == Init /\ [][Next]_vars

\* The program built with overflow checks (the debug profile).
InitDebug ==
  /\ pane \in {new(f) : f \in BOOLEAN}
  /\ selected = 0
  /\ overflow_checks = TRUE
  /\ last_action = "None"
  /\ last_result = "None"
  /\ before = scroll_of(pane)
  /\ selected_at_update = -1
  /\ frame = None
  /\ EnvInit

SpecDebug == InitDebug /\ [][Next]_vars

(***************************************************************************)
(* The pane with all the methods of its capability set.  The controller    *)
(* draws into the frame of the current cycle; the next event starts a new  *)
(* cycle with an empty frame.                                              *)
(***************************************************************************)
\* Pane::draw
Draw ==
  /\ Idle
  /\ LET r == draw(pane)
     IN /\ pane' = r.self
        /\ frame' = Some([widgets |-> r.frame, result |-> r.result])
  /\ UNCHANGED <<selected, overflow_checks, last_action, last_result, before,
                 selected_at_update, env>>

\* Pane::init
InitPane ==
  /\ Idle
  /\ pane' = init(pane).self
  /\ UNCHANGED <<selected, overflow_checks, last_action, last_result, before,
                 selected_at_update, frame, env>>

\* Pane::handle_key_events
HandleKeyEvents ==
  /\ Idle
  /\ pane' = handle_key_events(pane).self
  /\ UNCHANGED <<selected, overflow_checks, last_action, last_result, before,
                 selected_at_update, frame, env>>

\* Pane::handle_mouse_events
HandleMouseEvents ==
  /\ Idle
  /\ pane' = handle_mouse_events(pane).self
  /\ UNCHANGED <<selected, overflow_checks, last_action, last_result, before,
                 selected_at_update, frame, env>>

NextUI ==
  \/ Next
  \/ Draw
  \/ InitPane
  \/ HandleKeyEvents
  \/ HandleMouseEvents

SpecUI == Init /\ [][NextUI]_vars

(***************************************************************************)
(* The controller's focus handling (spec 4.1): a fixed set of panes, one   *)
(* created focused; focus moves by unfocus() on the focused pane followed  *)
(* by focus() on the target; an Action other than Update goes to the       *)
(* focused pane only, Update is broadcast.                                 *)
(***************************************************************************)
focused_of(p) == IF p = "request" THEN pane.focused ELSE others[p]

InitFocus ==
  /\ pane = new(FALSE)
  /\ selected = 0
  /\ overflow_checks \in BOOLEAN
  /\ last_action = "None"
  /\ last_result = "None"
  /\ before = scroll_of(pane)
  /\ selected_at_update = -1
  /\ frame = None
  /\ others = [p \in OtherPanes |-> p = "apis"]
  /\ transfer = "None"
  /\ segment = None
  /\ process = process_start
  /\ numbered = None
  /\ lock = lock_start
  /\ library \in Libraries

\* First half of a focus transfer: unfocus() on the focused pane.
TransferUnfocus(target) ==
  /\ Idle
  /\ transfer = "None"
  /\ ~focused_of(target)
  /\ pane' = IF pane.focused THEN unfocus(pane).self ELSE pane
  /\ others' = [p \in OtherPanes |-> FALSE]
  /\ transfer' = target
  /\ frame' = None
  /\ UNCHANGED <<selected, overflow_checks, last_action, last_result, before,
                 selected_at_update, env_but_focus>>

\* Second half: focus() on the target.
TransferFocus ==
  /\ Idle
  /\ transfer # "None"
  /\ pane' = IF transfer = "request" THEN focus(pane).self ELSE pane
  /\ others' = [p \in OtherPanes |-> IF p = transfer THEN TRUE ELSE others[p]]
  /\ transfer' = "None"
  /\ frame' = None
  /\ UNCHANGED <<selected, overflow_checks, last_action, last_result, before,
                 selected_at_update, env_but_focus>>

\* The controller routes an Action to the request pane.
Deliver(action) ==
  /\ transfer = "None"
  /\ action = "Update" \/ pane.focused
  /\ Update(action)

NextFocus ==
  \/ \E target \in Panes : TransferUnfocus(target)
  \/ TransferFocus
  \/ \E i \in 0..Len(Operations) : Select(i)
  \/ \E action \in Actions : Deliver(action)
  \/ SetStyles

SpecFocus == InitFocus /\ [][NextFocus]_vars

(***************************************************************************)
(* The process.  App::run is the controller's loop: it delivers Actions to *)
(* the pane until it returns; an error of the pane's update ends it with   *)
(* an error (spec 4.1).  The pane is dropped when tokio_main returns.      *)
(***************************************************************************)
InitMain ==
  /\ pane = new(FALSE)
  /\ selected = 0
  /\ overflow_checks \in BOOLEAN
  /\ last_action = "None"
  /\ last_result = "None"
  /\ before = scroll_of(pane)
  /\ selected_at_update = -1
  /\ frame = None
  /\ EnvInit

\* What a step of tokio_main can come back with.
Outcomes(step) == {Ok("()"), Err(tokio_main_steps[step])}

AllOutcomes == UNION {Outcomes(step) : step \in 1..Len(tokio_main_steps)}

\* tokio_main calls one of the steps followed by `?` before App::run, which
\* returns.
TokioMainStep(outcome) ==
  /\ process.pc = "tokio_main"
  /\ process.step < Len(tokio_main_steps)
  /\ process.step \in fallible_steps
  /\ outcome \in Outcomes(process.step)
  /\ LET returned == tokio_main(process.step, outcome)
     IN process' = [process EXCEPT
                      !.calls = Append(@, tokio_main_steps[process.step]),
                      !.step = IF returned = None THEN @ + 1 ELSE @,
                      !.pc = IF returned = None THEN @ ELSE "main",
                      !.result = returned]
  /\ UNCHANGED <<pane_vars, env_but_process>>

\* tokio_main calls Cli::parse, which returns or ends the process.
CliParse(args) ==
  /\ process.pc = "tokio_main"
  /\ process.step \notin fallible_steps
  /\ LET r == Cli_parse(args)
     IN process' = [process EXCEPT
                      !.calls = Append(@, tokio_main_steps[process.step]),
                      !.step = IF r.exit = None THEN @ + 1 ELSE @,
                      !.pc = IF r.exit = None THEN @ ELSE "exited",
                      !.stderr = @ \o r.stderr,
                      !.exit = r.exit]
  /\ UNCHANGED <<pane_vars, env_but_process>>

\* tokio_main calls App::run.
StartRun ==
  /\ process.pc = "tokio_main"
  /\ process.step = Len(tokio_main_steps)
  /\ process' = [process EXCEPT !.calls = Append(@, tokio_main_steps[process.step]),
                                !.pc = "run"]
  /\ UNCHANGED <<pane_vars, env_but_process>>

\* One event of the loop of App::run.
RunLoop ==
  /\ process.pc = "run"
  /\ last_result # "Err"
  /\ Next

\* App::run returns, with an error when the pane's update returned one.
RunReturns(outcome) ==
  /\ process.pc = "run"
  /\ Idle
  /\ outcome \in Outcomes(process.step)
  /\ last_result = "Err" => ~outcome.ok
  /\ process' = [process EXCEPT !.pc = "main",
                                !.result = tokio_main(process.step, outcome)]
  /\ pane' = new(FALSE)
  /\ selected' = 0
  /\ last_action' = "None"
  /\ last_result' = "None"
  /\ before' = scroll_of(pane')
  /\ selected_at_update' = -1
  /\ frame' = None
  /\ UNCHANGED <<overflow_checks, env_but_process>>

\* main handles what tokio_main returned and returns.
MainReturns ==
  /\ process.pc = "main"
  /\ LET r == main(process.result[1])
     IN process' = [process EXCEPT !.pc = "exited", !.stderr = @ \o r.stderr,
                                   !.exit = Some(r.exit)]
  /\ UNCHANGED <<pane_vars, env_but_process>>

NextMain ==
  \/ \E outcome \in AllOutcomes : TokioMainStep(outcome)
  \/ \E args \in Arguments : CliParse(args)
  \/ StartRun
  \/ RunLoop
  \/ \E outcome \in AllOutcomes : RunReturns(outcome)
  \/ MainReturns

SpecMain == InitMain /\ [][NextMain]_vars

(***************************************************************************)
(* The closure of lines 79-88 on its own: it is applied to a segment of    *)
(* every syntect Style (a foreground and a font style of the u8 range).    *)
(***************************************************************************)
SyntectStyles ==
  [foreground : {"blue", "cyan"}, background : {"base03"}, font_style : 0..u8_MAX]

InitSegment ==
  /\ pane = new(FALSE)
  /\ selected = 0
  /\ overflow_checks = TRUE
  /\ last_action = "None"
  /\ last_result = "None"
  /\ before = scroll_of(pane)
  /\ selected_at_update = -1
  /\ frame = None
  /\ EnvInit

ConvertSegment(style) ==
  /\ segment' = Some([style |-> style, converted |-> segment_style(style)])
  /\ UNCHANGED <<pane_vars, env_but_segment>>

NextSegment == \E style \in SyntectStyles : ConvertSegment(style)

SpecSegment == InitSegment /\ [][NextSegment]_vars

(***************************************************************************)
(* The shared state behind its RwLock.  Update is taken apart into the     *)
(* steps of init_request_schema, each reading the state as it is at that   *)
(* step; a writer replaces the whole state under the write lock, the other *)
(* panes read it under read locks of their own.                            *)
(***************************************************************************)
InitLock ==
  /\ pane = new(FALSE)
  /\ selected = 0
  /\ overflow_checks = TRUE
  /\ last_action = "None"
  /\ last_result = "None"
  /\ before = scroll_of(pane)
  /\ selected_at_update = -1
  /\ frame = None
  /\ EnvInit

\* line 99: self.state.read().unwrap(), which waits while a writer holds
\* the lock.
ReadLock ==
  /\ lock.pc = "idle"
  /\ lock.writer = "idle"
  /\ lock' = [read_lock(lock, "request") EXCEPT !.pc = "locked",
                                                !.entry = Some(pane)]
  /\ UNCHANGED <<pane_vars, env_but_lock>>

\* lines 100-102
ResetFields ==
  /\ lock.pc = "locked"
  /\ pane' = [pane EXCEPT !.request_body = None,
                          !.request_schema_styles = <<>>,
                          !.request_schema_line_offset = 0]
  /\ lock' = [lock EXCEPT !.pc = "reset"]
  /\ UNCHANGED <<selected, overflow_checks, last_action, last_result, before,
                 selected_at_update, frame, env_but_lock>>

\* lines 103-104: state.active_operation() and its request_body
ReadActiveOperation ==
  /\ lock.pc = "reset"
  /\ LET active == active_operation(state)
     IN lock' = [lock EXCEPT !.reads = @ \cup {read_of(lock, selected)},
                             !.operation = active,
                             !.pc = IF active = None THEN "block_end"
                                    ELSE IF active[1].request_body = None
                                         THEN "block_end"
                                         ELSE "resolve"]
  /\ UNCHANGED <<pane_vars, env_but_lock>>

\* The `?` of line 105 or 108 returns the error: the guard is dropped and
\* update returns.
ReturnErr(seen) ==
  /\ lock' = call_returned(drop_guard(seen, "request"))
  /\ last_action' = "Update"
  /\ last_result' = "Err"
  /\ before' = scroll_of(seen.entry[1])
  /\ selected_at_update' = selected_read(seen)

\* line 105: oor.resolve(&state.openapi_spec)?
Resolve ==
  /\ lock.pc = "resolve"
  /\ LET resolved_oor == resolve_request_body(lock.operation[1].request_body[1],
                                              state.openapi_spec)
         seen == [lock EXCEPT !.reads = @ \cup {read_of(lock, selected)}]
     IN IF resolved_oor.ok
        THEN /\ lock' = [seen EXCEPT !.resolved_oor = Some(resolved_oor.val),
                                     !.pc = "content"]
             /\ UNCHANGED <<last_action, last_result, before, selected_at_update>>
        ELSE ReturnErr(seen)
  /\ UNCHANGED <<pane, selected, overflow_checks, frame, env_but_lock>>

\* lines 107-113: the "application/json" content and its schema
ContentSchema ==
  /\ lock.pc = "content"
  /\ LET resolved_oor == lock.resolved_oor[1]
     IN IF "application/json" \in DOMAIN resolved_oor.content
        THEN LET request_schema == schema(resolved_oor.content["application/json"],
                                          state.openapi_spec)
                 seen == [lock EXCEPT !.reads = @ \cup {read_of(lock, selected)}]
             IN IF request_schema.ok
                THEN /\ pane' = [pane EXCEPT !.request_schema = Some(request_schema.val),
                                             !.request_body = Some(resolved_oor)]
                     /\ lock' = [seen EXCEPT !.pc = "block_end"]
                     /\ UNCHANGED <<last_action, last_result, before,
                                    selected_at_update>>
                ELSE /\ ReturnErr(seen)
                     /\ UNCHANGED pane
        ELSE /\ pane' = [pane EXCEPT !.request_body = Some(resolved_oor)]
             /\ lock' = [lock EXCEPT !.pc = "block_end"]
             /\ UNCHANGED <<last_action, last_result, before, selected_at_update>>
  /\ UNCHANGED <<selected, overflow_checks, frame, env_but_lock>>

\* line 115: the end of the block
BlockEnd ==
  /\ lock.pc = "block_end"
  /\ lock' = [drop_guard(lock, "request") EXCEPT !.pc = "unlocked"]
  /\ UNCHANGED <<pane_vars, env_but_lock>>

\* RwLock::write: granted when nobody holds the lock.
WriteLock ==
  /\ lock.writer = "idle"
  /\ lock.readers = {}
  /\ lock.writes < MaxWrites
  /\ lock' = [lock EXCEPT !.writer = "held"]
  /\ UNCHANGED <<pane_vars, env_but_lock>>

\* The writer replaces the whole state.
Replace(i) ==
  /\ lock.writer = "held"
  /\ selected' = i
  /\ lock' = [lock EXCEPT !.writer = "replaced", !.writes = @ + 1]
  /\ UNCHANGED <<pane, overflow_checks, last_action, last_result, before,
                 selected_at_update, frame, env_but_lock>>

\* The write guard goes out of scope.
WriteUnlock ==
  /\ lock.writer = "replaced"
  /\ lock' = [lock EXCEPT !.writer = "idle"]
  /\ UNCHANGED <<pane_vars, env_but_lock>>

\* Another pane takes a read lock of its own for its update or draw.
OtherReadLock(p) ==
  /\ lock.writer = "idle"
  /\ p \notin lock.readers
  /\ lock' = read_lock(lock, p)
  /\ UNCHANGED <<pane_vars, env_but_lock>>

OtherReadUnlock(p) ==
  /\ p \in lock.readers
  /\ lock' = drop_guard(lock, p)
  /\ UNCHANGED <<pane_vars, env_but_lock>>

NextLock ==
  \/ ReadLock
  \/ ResetFields
  \/ ReadActiveOperation
  \/ Resolve
  \/ ContentSchema
  \/ BlockEnd
  \/ SetStyles
  \/ WriteLock
  \/ \E i \in DOMAIN Operations \cup {0} : Replace(i)
  \/ WriteUnlock
  \/ \E p \in OtherPanes : OtherReadLock(p)
  \/ \E p \in OtherPanes : OtherReadUnlock(p)

SpecLock == InitLock /\ [][NextLock]_vars

(***************************************************************************)
(* The gutter of line 90 on its own: it is formatted for every line index  *)
(* of a serialized schema of up to MaxLines lines.                         *)
(***************************************************************************)
InitGutter ==
  /\ pane = new(FALSE)
  /\ selected = 0
  /\ overflow_checks = TRUE
  /\ last_action = "None"
  /\ last_result = "None"
  /\ before = scroll_of(pane)
  /\ selected_at_update = -1
  /\ frame = None
  /\ EnvInit

FormatGutter(line_num) ==
  /\ numbered' = Some([line_num |-> line_num, gutter |-> gutter(line_num)])
  /\ UNCHANGED <<pane_vars, env_but_numbered>>

NextGutter == \E line_num \in 0..(MaxLines - 1) : FormatGutter(line_num)

SpecGutter == InitGutter /\ [][NextGutter]_vars

(***************************************************************************)
(* Vocabulary of the properties.                                           *)
(***************************************************************************)
cursor == pane.request_schema_line_offset

cache == pane.request_schema_styles

Max(a, b) == IF a >= b THEN a ELSE b

\* The Navigation State the last Action::Update read.
state_at_update == State(selected_at_update)

\* The render cache a newly created pane builds from a Navigation State.
BuilderOutput(st) ==
  init_request_schema(new(FALSE), st, library).self.request_schema_styles

\* The step is the return of an update call with the Action: the whole call
\* for an Action processed in one piece and for an Update that fails under
\* the read guard, line 117 for the others.
UpdateReturns(action) ==
  \/ Update(action) /\ lock'.pc = "idle"
  \/ action = "Update" /\ SetStyles

\* The last update call that has returned was one with the Action, and no
\* call is under way.
After(action) == lock.pc = "idle" /\ last_action = action

\* The pane as the call under way, or the call that starts now, found it.
pane_at_call == IF lock.pc = "idle" THEN pane ELSE lock.entry[1]

\* The request body of an operation, looked up in the document; None when
\* the operation has none or its reference has no target.
BodyOf(operation, spec) ==
  IF operation.request_body = None THEN None
  ELSE LET oor == operation.request_body[1]
       IN IF oor[1] = "Object" THEN Some(oor[2])
          ELSE IF oor[2] \in DOMAIN spec.components.request_bodies
               THEN Some(spec.components.request_bodies[oor[2]])
               ELSE None

\* No operation is selected, or the selected one has no request body or no
\* application/json content.
NothingToRender(st) ==
  \/ active_operation(st) = None
  \/ active_operation(st)[1].request_body = None
  \/ LET body == BodyOf(active_operation(st)[1], st.openapi_spec)
     IN body # None /\ "application/json" \notin DOMAIN body[1].content

\* The request body reference of the selected operation, or the schema
\* reference of its application/json content, has no target in the document.
DanglingReference(st) ==
  /\ active_operation(st) # None
  /\ active_operation(st)[1].request_body # None
  /\ LET body == BodyOf(active_operation(st)[1], st.openapi_spec)
     IN \/ body = None
        \/ /\ "application/json" \in DOMAIN body[1].content
           /\ LET oor == body[1].content["application/json"].schema
              IN oor[1] = "Ref" /\ oor[2] \notin DOMAIN st.openapi_spec.components.schemas

(***************************************************************************)
(* C1 (the code does not keep it).  After every Update, Up and Down the    *)
(* cursor is below the cache length when the cache has lines, and is 0     *)
(* when the cache is empty.                                                *)
(***************************************************************************)
C1_CursorInBounds ==
  lock.pc = "idle" =>
    IF Len(cache) > 0 THEN 0 <= cursor /\ cursor < Len(cache) ELSE cursor = 0

(***************************************************************************)
(* C2 (the code does not keep it).  After a successful Update the cache is *)
(* the Builder's output for the Navigation State of that Update, whatever  *)
(* the pane rendered before.                                               *)
(***************************************************************************)
C2_CacheIsFunctionOfState ==
  (After("Update") /\ last_result = "Ok") => cache = BuilderOutput(state_at_update)

(***************************************************************************)
(* C3 (the code does not keep it).  An Update with no operation selected,  *)
(* or on an operation without request body or without application/json    *)
(* content, leaves the cache empty.                                        *)
(***************************************************************************)
C3_EmptyWhenNothingToRender ==
  (After("Update") /\ NothingToRender(state_at_update)) => cache = <<>>

(***************************************************************************)
(* C4 (the code does not keep it).  A failed Update leaves the cache and   *)
(* the cursor as they were before it.                                      *)
(***************************************************************************)
C4_FailedUpdateKeepsCache ==
  (After("Update") /\ last_result = "Err") => scroll_of(pane) = before

(***************************************************************************)
(* C5.  An Update on an operation whose request body reference, or whose   *)
(* application/json schema reference, has no target in the document        *)
(* returns an error, never success.                                        *)
(***************************************************************************)
C5_DanglingReferenceIsError ==
  (After("Update") /\ DanglingReference(state_at_update)) => last_result = "Err"

\* An Update has failed on the dangling schema reference of operation 6 in a
\* pane that held a rendered schema.
C5_Witness ==
  /\ After("Update")
  /\ selected_at_update = 6
  /\ DanglingReference(state_at_update)
  /\ last_result = "Err"
  /\ before.request_schema_styles # <<>>

(***************************************************************************)
(* C6 (the code does not keep it).  Down returns normally and sets the     *)
(* cursor to min(cursor + 1, max(len(cache) - 1, 0)), for every cache      *)
(* length, 0 included.                                                     *)
(***************************************************************************)
C6_DownIsClampedIncrement ==
  After("Down") =>
    /\ last_result = "Ok"
    /\ cursor = min(before.request_schema_line_offset + 1,
                    Max(Len(before.request_schema_styles) - 1, 0))

(***************************************************************************)
(* C7 as stated (refuted).  For every Action, a second update with the     *)
(* same Action under an unchanged Navigation State leaves the pane as the  *)
(* first one left it.                                                      *)
(***************************************************************************)
C7_UpdateIdempotentForEveryAction ==
  [][\A action \in Actions :
       (/\ UpdateReturns(action)
        /\ last_action = action
        /\ selected_at_update' = selected_at_update)
         => pane' = pane_at_call]_vars

(***************************************************************************)
(* C7 as amended.  For Update, Submit and every Action other than Up and   *)
(* Down, a second update with the same Action under an unchanged           *)
(* Navigation State leaves the pane (cache, cursor, request body, focus    *)
(* flag) as the first one left it.                                         *)
(***************************************************************************)
C7_UpdateIdempotentExceptScrolling ==
  [][\A action \in Actions \ {"Up", "Down"} :
       (/\ UpdateReturns(action)
        /\ last_action = action
        /\ selected_at_update' = selected_at_update)
         => pane' = pane_at_call]_vars

\* An Update under the selection of the Update before it has left a pane
\* with a rendered schema as it found it.
C7_Witness ==
  /\ After("Update")
  /\ last_result = "Ok"
  /\ selected_at_update = selected
  /\ ~NothingToRender(state_at_update)
  /\ cache # <<>>
  /\ before = scroll_of(pane)

(***************************************************************************)
(* C8.  Two consecutive Updates under the same Navigation State build the  *)
(* same sequence of Highlighted Lines: the second leaves the cache as the  *)
(* first built it.                                                         *)
(***************************************************************************)
C8_RebuildYieldsSameLines ==
  [][(/\ UpdateReturns("Update")
      /\ last_action = "Update"
      /\ selected_at_update' = selected_at_update)
       => pane'.request_schema_styles = pane_at_call.request_schema_styles]_vars

\* The object schema of operation 2 has been built, and an Update has been
\* processed on the four lines of that cache.
C8_Witness ==
  /\ After("Update")
  /\ selected_at_update = 2
  /\ Len(before.request_schema_styles) = 4
  /\ cache = before.request_schema_styles

(***************************************************************************)
(* C9.  After a successful Update the cache holds exactly the lines of the *)
(* schema the pane serialized (the application/json schema of the selected *)
(* operation, where it has one): as many lines as the YAML text has, whose *)
(* fragments after the gutter spell that text, and the cursor is 0.        *)
(***************************************************************************)
\* The number of lines of a text.
LineCount(text) ==
  Cardinality({i \in 1..Len(text) : text[i] = "\n"})
  + (IF text # <<>> /\ text[Len(text)] # "\n" THEN 1 ELSE 0)

\* The text of the fragments of the lines, gutters aside.
RECURSIVE TextOf(_)
TextOf(lines) ==
  IF lines = <<>> THEN <<>>
  ELSE [i \in 1..(Len(Head(lines)) - 1) |-> Head(lines)[i + 1][2]] \o TextOf(Tail(lines))

\* The application/json schema of the selected operation, looked up in the
\* document, where the operation has one.
SchemaOf(st) ==
  LET oor == BodyOf(active_operation(st)[1], st.openapi_spec)[1].content["application/json"].schema
  IN IF oor[1] = "Object" THEN oor[2] ELSE st.openapi_spec.components.schemas[oor[2]]

C9_UpdateReplacesCacheAndResetsCursor ==
  (After("Update") /\ last_result = "Ok") =>
    LET yaml_schema == IF pane.request_schema = None THEN <<>>
                       ELSE yaml_text(pane.request_schema[1])
    IN /\ ~NothingToRender(state_at_update) => pane.request_schema = Some(SchemaOf(state_at_update))
       /\ Len(cache) = LineCount(yaml_schema)
       /\ TextOf(cache) = yaml_schema
       /\ cursor = 0

\* A successful Update has replaced a cache of another length, scrolled away
\* from its first line, with the one line of the schema of operation 1.
C9_Witness ==
  /\ After("Update")
  /\ last_result = "Ok"
  /\ selected_at_update = 1
  /\ Len(cache) = 1
  /\ Len(before.request_schema_styles) = 4
  /\ before.request_schema_line_offset > 0

(***************************************************************************)
(* C10.  Up returns normally and sets the cursor to max(cursor - 1, 0),    *)
(* for every cache length, the empty cache included.                       *)
(***************************************************************************)
C10_UpIsSaturatingDecrement ==
  After("Up") =>
    /\ last_result = "Ok"
    /\ cursor = Max(before.request_schema_line_offset - 1, 0)
    /\ cache = before.request_schema_styles

\* Up has been processed with the cursor at 0 on an empty cache.
C10_Witness ==
  /\ After("Up")
  /\ before.request_schema_line_offset = 0
  /\ before.request_schema_styles = <<>>
  /\ cursor = 0

(***************************************************************************)
(* C11.  With one pane created focused, after any sequence of completed    *)
(* focus transfers (unfocus() on the focused pane, then focus() on the     *)
(* target) exactly one pane reports focused.                               *)
(***************************************************************************)
C11_ExactlyOneFocused ==
  transfer = "None" => Cardinality({p \in Panes : focused_of(p)}) = 1

\* Focus has been transferred to the request pane, which was created
\* unfocused, and the pane has scrolled since.
C11_Witness ==
  /\ transfer = "None"
  /\ pane.focused
  /\ \A p \in OtherPanes : ~others[p]
  /\ After("Up")

(***************************************************************************)
(* C12 (the code does not keep it).  No fallible step has its failure      *)
(* replaced by a default value: when the conversion of a highlighted       *)
(* token's style fails, the step hands the error on.                       *)
(***************************************************************************)
C12_ConversionFailureIsReturned ==
  (segment # None /\ ~syntect_tui_translate_style(segment[1].style).ok)
    => ~segment[1].converted.ok

(***************************************************************************)
(* C13.  The render cache changes only when update processes Update, the   *)
(* scroll cursor only when it processes Update, Up or Down; draw,          *)
(* handle_key_events, handle_mouse_events, init, focus and unfocus leave   *)
(* cache, cursor and the Navigation State as they are; update with Submit  *)
(* or any other Action changes nothing of the pane.                        *)
(***************************************************************************)
C13_UpdateIsTheOnlyMutationPoint ==
  [][/\ cache' # cache => (Update("Update") \/ SetStyles)
     /\ cursor' # cursor => \E action \in {"Update", "Up", "Down"} : Update(action)
     /\ (Draw \/ HandleKeyEvents \/ HandleMouseEvents \/ InitPane \/ Focus \/ Unfocus)
          => (cache' = cache /\ cursor' = cursor /\ selected' = selected)
     /\ (Update("Submit") \/ Update("Tick")) => pane' = pane]_vars

\* draw has rendered a pane that holds a rendered schema, is scrolled away
\* from its first line and last processed Submit.
C13_Witness ==
  /\ frame # None
  /\ After("Submit")
  /\ cache # <<>>
  /\ cursor > 0

(***************************************************************************)
(* C14.  When no operation was selected at the last Update, draw renders   *)
(* the block with its border and nothing else (no tabs, no list of lines)  *)
(* and returns no error, also when the pane had rendered a schema before.  *)
(***************************************************************************)
C14_NoSelectionDrawsBorderOnly ==
  (frame # None /\ selected_at_update = 0) =>
    /\ frame[1].result = "Ok"
    /\ frame[1].widgets.tabs = None
    /\ frame[1].widgets.list = None
    /\ frame[1].widgets.block.borders = "ALL"

\* draw has rendered a pane whose last Update ran with no operation selected
\* and which still holds the schema and the lines of an earlier operation.
C14_Witness ==
  /\ frame # None
  /\ selected_at_update = 0
  /\ pane.request_schema # None
  /\ cache # <<>>
  /\ frame[1].widgets.list = None

(***************************************************************************)
(* C15.  The border draw renders is a function of the focused flag alone:  *)
(* thick with the emphasized style when focused, plain with the default    *)
(* style when not, whatever the cache, the cursor, the request body and    *)
(* the Navigation State are.                                               *)
(***************************************************************************)
C15_BorderFollowsFocus ==
  frame # None =>
    /\ frame[1].widgets.block.border_type = (IF pane.focused THEN "Thick" ELSE "Plain")
    /\ frame[1].widgets.block.border_style =
         (IF pane.focused THEN FocusedBorderStyle ELSE Style_default)

\* draw has rendered an unfocused pane that holds a request body and a
\* rendered schema: the border is plain.
C15_Witness ==
  /\ frame # None
  /\ ~pane.focused
  /\ pane.request_body # None
  /\ cache # <<>>
  /\ frame[1].widgets.block.border_type = "Plain"

(***************************************************************************)
(* C16.  After a successful Update the i-th line of the cache, i from 1,   *)
(* starts with the dim gutter fragment that holds the number i: the lines  *)
(* are numbered 1..N without gap or repeat, whatever the cache before held. *)
(***************************************************************************)
\* The number a gutter text spells, its spaces aside.
RECURSIVE NumberOf(_)
NumberOf(chars) ==
  IF chars = <<>> THEN 0
  ELSE LET c == chars[Len(chars)]
           front == SubSeq(chars, 1, Len(chars) - 1)
       IN IF c = " " THEN NumberOf(front)
          ELSE NumberOf(front) * 10
               + (CHOOSE d \in 0..9 :
                    <<"0", "1", "2", "3", "4", "5", "6", "7", "8", "9">>[d + 1] = c)

C16_LinesNumberedFromOne ==
  (After("Update") /\ last_result = "Ok") =>
    \A i \in 1..Len(cache) :
      /\ cache[i][1][1].dim
      /\ NumberOf(cache[i][1][2]) = i

\* A successful Update has built the four lines of the schema of operation 2
\* in a pane that held numbered lines before.
C16_Witness ==
  /\ After("Update")
  /\ last_result = "Ok"
  /\ selected_at_update = 2
  /\ Len(cache) = 4
  /\ before.request_schema_styles # <<>>

(***************************************************************************)
(* C17.  An error returned by a step of tokio_main (App::new and App::run  *)
(* among them) is fatal: no step is called after it and none is called     *)
(* twice, main prints one message and exits with that error; when          *)
(* tokio_main returns without error, main prints nothing and exits Ok.     *)
(* The process exits without tokio_main returning only inside Cli::parse,  *)
(* before the application is constructed.                                  *)
(***************************************************************************)
C17_ErrorIsFatalAndReportedOnce ==
  process.pc = "exited" =>
    LET calls == process.calls
    IN /\ \A i, j \in 1..Len(calls) : calls[i] = calls[j] => i = j
       /\ calls = SubSeq(tokio_main_steps, 1, Len(calls))
       /\ IF process.result = None
          THEN /\ calls[Len(calls)] = "Cli::parse"
               /\ "openapi-tui error: Something went wrong"
                    \notin {process.stderr[i] : i \in 1..Len(process.stderr)}
          ELSE LET result == process.result[1]
               IN IF result.ok
                  THEN /\ calls = tokio_main_steps
                       /\ process.stderr = <<>>
                       /\ process.exit = Some(Ok("()"))
                  ELSE /\ result.val = calls[Len(calls)]
                       /\ process.stderr = <<"openapi-tui error: Something went wrong">>
                       /\ process.exit = Some(result)

\* The loop of App::run has ended with an error and the process has exited
\* with it.
C17_Witness ==
  /\ process.pc = "exited"
  /\ process.exit = Some(Err("App::run"))
  /\ Len(process.stderr) = 1
  /\ Len(process.calls) = 5

(***************************************************************************)
(* C18 (the code does not keep it).  The gutter has the same number of     *)
(* characters on every line, whatever the number of digits of the line     *)
(* number: the width it has on line 1.                                     *)
(***************************************************************************)
C18_GutterWidthIsFixed ==
  numbered # None => Len(numbered[1].gutter[2]) = Len(gutter(0)[2])

(***************************************************************************)
(* C19.  With a writer replacing the shared state between the steps of the *)
(* panes, an Update makes all its reads of the state under one read lock,  *)
(* so they all see one and the same replacement, and the pane and the      *)
(* result at its return are those of init_request_schema run in one piece  *)
(* on that value; from the end of the block on, and after every return,    *)
(* `?` returns included, the pane holds no read lock, and a writer holds    *)
(* the lock only while no pane reads.                                      *)
(***************************************************************************)
C19_OneValuePerUpdateAndLockReleased ==
  /\ [](/\ lock.pc \in {"idle", "unlocked"} => "request" \notin lock.readers
        /\ lock.pc \notin {"idle", "unlocked"} => lock.writer = "idle"
        /\ lock.writer # "idle" => lock.readers = {}
        /\ \A r1 \in lock.reads : \A r2 \in lock.reads : r1 = r2)
  /\ [][(lock.pc # "idle" /\ lock'.pc = "idle") =>
          \E r \in lock.reads \cup {read_of(lock, selected)} :
            LET whole == init_request_schema(lock.entry[1], State(r.active), library)
            IN /\ lock.reads \subseteq {r}
               /\ pane' = whole.self
               /\ last_result' = whole.result
               /\ selected_at_update' = r.active]_vars

\* An Update has failed at a `?` after the state had been replaced twice, and
\* the writer has taken the write lock again after it.
C19_Witness ==
  /\ lock.pc = "idle"
  /\ After("Update")
  /\ last_result = "Err"
  /\ DanglingReference(state_at_update)
  /\ before.request_schema_styles # <<>>
  /\ lock.writes = 2
  /\ lock.writer = "held"

(***************************************************************************)
(* C20 (the code does not keep it).  An update with an Action other than   *)
(* Update returns Ok(None), and the subtraction of line 151 stays within   *)
(* usize, in every reachable state of the pane, the empty cache included.  *)
(***************************************************************************)
C20_ScrollActionsNeverOverflow ==
  (lock.pc = "idle" /\ last_action \in Actions \ {"Update"}) =>
    /\ last_result = "Ok"
    /\ After("Down") =>
         Len(before.request_schema_styles) - 1 \in 0..usize_MAX

====
